---- MODULE Spec2Model ----
(***************************************************************************)
(* Model of src/js/heroshape.js ("Digital Snow Globe"): particles with     *)
(* friction, wall bounce, pairwise elastic collision and mouse repulsion,  *)
(* driven by animation frames, mousemove events and window resizes.        *)
(*                                                                         *)
(* Numbers.  A JavaScript number is modelled as a fixed-point integer in   *)
(* units of 1/Scale (1/1000 pixel, 1/1000 pixel per frame, ...).  Sums and *)
(* differences are exact; a product, a quotient and a square root are      *)
(* rounded to the nearest unit, as the machine operation rounds to the     *)
(* nearest representable double.  Identities of real arithmetic therefore  *)
(* hold up to a few units, and are stated with the tolerance Tol.  The     *)
(* cosine and the sine of an angle, numbers in [-1, 1], are held in units  *)
(* of 1/Scale^2, so that a rotation keeps the digits of what it rotates.   *)
(***************************************************************************)
EXTENDS Integers, Sequences, FiniteSets

VARIABLES
  particles,        \* const particles = []: sequence of Particle records
  mouse,            \* const mouse = { x, y }: each <<>> (undefined) or <<v>>
  containerWidth,   \* let containerWidth
  containerHeight,  \* let containerHeight
  pc,               \* position of the running callback: [ph, i, j]
  spawn,            \* locals of createParticles / findValidPosition
  log,              \* history: the method calls of the current frame
  last,             \* history: the most recent handler or call, with the state before it
  frames,           \* number of animation frames started
  events            \* number of mousemove / resize events delivered

vars == <<particles, mouse, containerWidth, containerHeight, pc, spawn, log, last,
          frames, events>>

-----------------------------------------------------------------------------
(* Fixed-point arithmetic *)

\* Units per pixel: three decimal digits, the resolution of PHYSICS.FRICTION.
Scale == 10 * 10 * 10

Px(n) == n * Scale

Abs(a) == IF a < 0 THEN -a ELSE a

Min(a, b) == IF a < b THEN a ELSE b

Max(a, b) == IF a > b THEN a ELSE b

\* n / d for n >= 0, d > 0, rounded to the nearest integer (half up).
RoundDiv(n, d) == n \div d + (IF 2 * (n % d) >= d THEN 1 ELSE 0)

\* |a| * |b| / Scale, rounded, computed limb by limb so that no intermediate
\* value leaves TLC's 32-bit integers.
MulAbs(a, b) ==
  LET ah == a \div Scale
      al == a % Scale
      bh == b \div Scale
      bl == b % Scale
  IN  ah * bh * Scale + ah * bl + al * bh + RoundDiv(al * bl, Scale)

\* The product a * b of two numbers.
Mul(a, b) ==
  IF (a < 0) = (b < 0) THEN MulAbs(Abs(a), Abs(b)) ELSE -MulAbs(Abs(a), Abs(b))

DivAbs(a, b) == (a \div b) * Scale + RoundDiv((a % b) * Scale, b)

\* The quotient a / b of two numbers, b # 0.
Div(a, b) ==
  IF (a < 0) = (b < 0) THEN DivAbs(Abs(a), Abs(b)) ELSE -DivAbs(Abs(a), Abs(b))

\* The square of a, 0 <= a < 2000 * Scale, plus c, as <<hi, lo>> standing for
\* hi * Scale^2 + lo with 0 <= lo < Scale^2: the exact integer, which may not
\* fit 32 bits.
SqPlus(a, c) ==
  LET ah == a \div Scale
      al == a % Scale
      mid == 2 * ah * al
      lo == (mid % Scale) * Scale + al * al + c
  IN  <<ah * ah + mid \div Scale + lo \div (Scale * Scale), lo % (Scale * Scale)>>

AddPair(p, q) ==
  <<p[1] + q[1] + (p[2] + q[2]) \div (Scale * Scale), (p[2] + q[2]) % (Scale * Scale)>>

LeqPair(p, q) == p[1] < q[1] \/ (p[1] = q[1] /\ p[2] <= q[2])

RECURSIVE SqrtSearch(_, _, _)
\* The largest r in lo..hi with r * r <= s, s a pair (lo satisfies it).
SqrtSearch(s, lo, hi) ==
  IF lo >= hi THEN lo
  ELSE LET mid == (lo + hi + 1) \div 2
       IN  IF LeqPair(SqPlus(mid, 0), s) THEN SqrtSearch(s, mid, hi)
           ELSE SqrtSearch(s, lo, mid - 1)

\* Math.sqrt(x ** 2 + y ** 2) for |x|, |y| <= 1000 pixels: the root of the
\* exact sum of squares, rounded to the nearest unit.
Hypot(x, y) ==
  LET s == AddPair(SqPlus(Abs(x), 0), SqPlus(Abs(y), 0))
      r == SqrtSearch(s, 0, Abs(x) + Abs(y))
  IN  IF LeqPair(SqPlus(r, r + 1), s) THEN r + 1 ELSE r

\* |x| / h for 0 <= |x| <= h, h > 0, in units of 1/Scale^2, with the sign of x.
UnitDiv(x, h) ==
  LET n == Abs(x) * Scale
      c == (n \div h) * Scale + RoundDiv((n % h) * Scale, h)
  IN  IF x < 0 THEN -c ELSE c

\* a * c for a number a and a cosine or sine c (in units of 1/Scale^2).
UnitMul(a, c) ==
  LET ch == Abs(c) \div Scale
      cl == Abs(c) % Scale
      m == RoundDiv(Abs(a) * ch + RoundDiv(Abs(a) * cl, Scale), Scale)
  IN  IF (a < 0) = (c < 0) THEN m ELSE -m

-----------------------------------------------------------------------------
(* Configuration: const PHYSICS, in fixed-point units *)

FRICTION == 995

REPULSION_RADIUS == 150000

REPULSION_FORCE == 3000

BOUNCE_ENERGY == 1050

INITIAL_VELOCITY == 4000

PARTICLE_COUNT == 35

MIN_SIZE == 25000

MAX_SIZE == 55000

MAX_ATTEMPTS == 100

-----------------------------------------------------------------------------
(* const utils *)

\* The value undefined, and a defined number v, as the field of mouse holds them.
undefined == <<>>

Num(v) == <<v>>

\* utils.randomPosition, with the two Math.random() draws rx, ry in [0, 1).
randomPosition(size, rx, ry, width, height) ==
  [x |-> Mul(rx, width - 2 * size) + size,
   y |-> Mul(ry, height - 2 * size) + size]

\* utils.randomSize, with its Math.random() draw r.
randomSize(r) == MIN_SIZE + Mul(r, MAX_SIZE - MIN_SIZE)

\* utils.randomVelocity, with its two Math.random() draws.
randomVelocity(rx, ry) ==
  [x |-> Mul(rx - Scale \div 2, INITIAL_VELOCITY),
   y |-> Mul(ry - Scale \div 2, INITIAL_VELOCITY)]

distance(x1, y1, x2, y2) == Hypot(x2 - x1, y2 - y1)

\* utils.distance(x1, y1, x2, y2) < r for r >= 0, decided on the exact squares:
\* (x2 - x1) ** 2 + (y2 - y1) ** 2 < r ** 2.  The rounding of the root to a
\* unit has no part in the comparison.
distanceBelow(x1, y1, x2, y2, r) ==
  ~ LeqPair(SqPlus(r, 0), AddPair(SqPlus(Abs(x2 - x1), 0), SqPlus(Abs(y2 - y1), 0)))

RECURSIVE Enlarge(_)
\* The vector v = <<x, y>> # <<0, 0>> times the power of ten that brings its
\* larger component to 100 pixels or more: the same direction, with digits
\* enough to take its cosine and sine.
Enlarge(v) ==
  IF Max(Abs(v[1]), Abs(v[2])) >= 100 * Scale THEN v
  ELSE Enlarge(<<10 * v[1], 10 * v[2]>>)

\* An angle is held as its cosine and sine.  Math.atan2(y, x) is the angle of
\* the vector (x, y); atan2(0, 0) = 0.
atan2(y, x) ==
  IF x = 0 /\ y = 0 THEN [cos |-> Scale * Scale, sin |-> 0]
  ELSE LET v == Enlarge(<<x, y>>)
           h == Hypot(v[1], v[2])
       IN  [cos |-> UnitDiv(v[1], h), sin |-> UnitDiv(v[2], h)]

\* The angle -a.
Neg(a) == [cos |-> a.cos, sin |-> -a.sin]

rotateVector(vector, angle) ==
  [x |-> UnitMul(vector.x, angle.cos) - UnitMul(vector.y, angle.sin),
   y |-> UnitMul(vector.x, angle.sin) + UnitMul(vector.y, angle.cos)]

\* utils.clamp with the two limits applied in the other order, which differs
\* when min > max.
clampMinLast(value, min, max) == Max(min, Min(value, max))

\* utils.clamp
clamp(value, min, max) == Min(Max(min, value), max)

-----------------------------------------------------------------------------
(* class Particle: a record [x, y, size, mass, friction, velocity] *)

\* constructor, with the velocity utils.randomVelocity() returned.
Particle(x, y, size, velocity) ==
  [x |-> x, y |-> y, size |-> size, mass |-> size * 2, friction |-> FRICTION,
   velocity |-> velocity]

\* Particle.clamp, under the container dimensions width, height.
clampParticle(p, width, height) ==
  [p EXCEPT !.x = clamp(p.x, p.size, width - p.size),
            !.y = clamp(p.y, p.size, height - p.size)]

applyForce(p, forceX, forceY) ==
  [p EXCEPT !.velocity = [x |-> p.velocity.x + forceX, y |-> p.velocity.y + forceY]]

\* handleWallCollisions reversing the velocity without putting the body back
\* on the boundary.
handleWallCollisionsInPlace(p, width, height) ==
  LET left == IF p.x - p.size <= 0
              THEN [p EXCEPT !.velocity.x = Mul(Abs(p.velocity.x), BOUNCE_ENERGY)]
              ELSE p
      right == IF left.x + left.size >= width
               THEN [left EXCEPT !.velocity.x = -Mul(Abs(left.velocity.x), BOUNCE_ENERGY)]
               ELSE left
      top == IF right.y - right.size <= 0
             THEN [right EXCEPT !.velocity.y = Mul(Abs(right.velocity.y), BOUNCE_ENERGY)]
             ELSE right
  IN  IF top.y + top.size >= height
      THEN [top EXCEPT !.velocity.y = -Mul(Abs(top.velocity.y), BOUNCE_ENERGY)]
      ELSE top

\* handleWallCollisions without the gain of BOUNCE_ENERGY.
handleWallCollisionsNoGain(p, width, height) ==
  LET left == IF p.x - p.size <= 0
              THEN [p EXCEPT !.velocity.x = Abs(p.velocity.x), !.x = p.size]
              ELSE p
      right == IF left.x + left.size >= width
               THEN [left EXCEPT !.velocity.x = -Abs(left.velocity.x),
                                 !.x = width - left.size]
               ELSE left
      top == IF right.y - right.size <= 0
             THEN [right EXCEPT !.velocity.y = Abs(right.velocity.y), !.y = right.size]
             ELSE right
  IN  IF top.y + top.size >= height
      THEN [top EXCEPT !.velocity.y = -Abs(top.velocity.y), !.y = height - top.size]
      ELSE top

handleWallCollisions(p, width, height) ==
  LET left == IF p.x - p.size <= 0
              THEN [p EXCEPT !.velocity.x = Mul(Abs(p.velocity.x), BOUNCE_ENERGY),
                             !.x = p.size]
              ELSE p
      right == IF left.x + left.size >= width
               THEN [left EXCEPT !.velocity.x = -Mul(Abs(left.velocity.x), BOUNCE_ENERGY),
                                 !.x = width - left.size]
               ELSE left
      top == IF right.y - right.size <= 0
             THEN [right EXCEPT !.velocity.y = Mul(Abs(right.velocity.y), BOUNCE_ENERGY),
                                !.y = right.size]
             ELSE right
  IN  IF top.y + top.size >= height
      THEN [top EXCEPT !.velocity.y = -Mul(Abs(top.velocity.y), BOUNCE_ENERGY),
                       !.y = height - top.size]
      ELSE top

\* repelFromMouse without the test of the repulsion radius.
repelFromMouseAnyRange(p, m) ==
  IF m.x = undefined THEN p
  ELSE LET d == distance(p.x, p.y, m.x[1], m.y[1])
       IN  IF d > 0
           THEN LET force == Mul(Div(REPULSION_RADIUS - d, REPULSION_RADIUS),
                                 REPULSION_FORCE)
                    angle == atan2(p.y - m.y[1], p.x - m.x[1])
                IN  applyForce(p, UnitMul(force, angle.cos), UnitMul(force, angle.sin))
           ELSE p

\* Particle.repelFromMouse, reading the global mouse m.
repelFromMouse(p, m) ==
  IF m.x = undefined THEN p
  ELSE LET d == distance(p.x, p.y, m.x[1], m.y[1])
       IN  IF distanceBelow(p.x, p.y, m.x[1], m.y[1], REPULSION_RADIUS) /\ d > 0
           THEN LET force == Mul(Div(REPULSION_RADIUS - d, REPULSION_RADIUS),
                                 REPULSION_FORCE)
                    angle == atan2(p.y - m.y[1], p.x - m.x[1])
                IN  applyForce(p, UnitMul(force, angle.cos), UnitMul(force, angle.sin))
           ELSE p

\* calculateCollisionVelocity with the factor 2 * m2 taken as 2 * m1.
calculateCollisionVelocityOwnMass(v1, v2, m1, m2) ==
  [x |-> Div(Mul(v1.x, m1 - m2) + Mul(Mul(v2.x, 2 * Scale), m1), m1 + m2),
   y |-> v1.y]

calculateCollisionVelocity(v1, v2, m1, m2) ==
  [x |-> Div(Mul(v1.x, m1 - m2) + Mul(Mul(v2.x, 2 * Scale), m2), m1 + m2),
   y |-> v1.y]

\* Particle.handleCollision: <<this, otherParticle>> after the call.
handleCollision(this, otherParticle) ==
  LET d == distance(this.x, this.y, otherParticle.x, otherParticle.y)
  IN  IF d <= 0 \/ ~ distanceBelow(this.x, this.y, otherParticle.x, otherParticle.y,
                                    this.size + otherParticle.size)
      THEN <<this, otherParticle>>
      ELSE LET angle == Neg(atan2(otherParticle.y - this.y, otherParticle.x - this.x))
               velocity1 == rotateVector(this.velocity, angle)
               velocity2 == rotateVector(otherParticle.velocity, angle)
               newVelocity1 ==
                 calculateCollisionVelocity(velocity1, velocity2, this.mass,
                                            otherParticle.mass)
               newVelocity2 ==
                 calculateCollisionVelocity(velocity2, velocity1, otherParticle.mass,
                                            this.mass)
           IN  <<[this EXCEPT !.velocity = rotateVector(newVelocity1, Neg(angle))],
                 [otherParticle EXCEPT
                    !.velocity = rotateVector(newVelocity2, Neg(angle))]>>

\* updatePosition moving the body by the velocity before friction.
updatePositionMoveFirst(p) ==
  [p EXCEPT !.velocity = [x |-> Mul(p.velocity.x, p.friction),
                          y |-> Mul(p.velocity.y, p.friction)],
            !.x = p.x + p.velocity.x, !.y = p.y + p.velocity.y]

updatePosition(p) ==
  LET vx == Mul(p.velocity.x, p.friction)
      vy == Mul(p.velocity.y, p.friction)
  IN  [p EXCEPT !.velocity = [x |-> vx, y |-> vy], !.x = p.x + vx, !.y = p.y + vy]

-----------------------------------------------------------------------------
(* Bounds and inputs of the model *)

\* Animation frames a behaviour runs.
MaxFrames == 2

\* mousemove and resize events a behaviour delivers.
MaxEvents == 2

\* $container.offset(): where the container lies in the page.
ContainerOffset == [left |-> Px(50), top |-> Px(50)]

\* (e.pageX, e.pageY) of the mousemove events: one over the container, one
\* left of it.
MousePages ==
  {[pageX |-> Px(120), pageY |-> Px(110)], [pageX |-> Px(30), pageY |-> Px(200)]}

\* ($container.width(), $container.height()) a resize may find.
Viewports ==
  {[width |-> Px(400), height |-> Px(300)],
   [width |-> Px(150), height |-> Px(200)],
   [width |-> Px(40), height |-> Px(40)]}

\* The particles createParticles may have made in a 400 x 300 container.
SceneOblique ==
  <<Particle(Px(100), Px(100), Px(30), [x |-> 1000, y |-> 500]),
    Particle(Px(130), Px(140), Px(50), [x |-> -1000, y |-> -2000])>>

SceneWalls ==
  <<Particle(Px(26), Px(150), Px(25), [x |-> -2000, y |-> 0]),
    Particle(Px(374), Px(274), Px(25), [x |-> 1500, y |-> 1500]),
    Particle(Px(200), Px(31), Px(30), [x |-> 500, y |-> -2000])>>

SceneHeadOn ==
  <<Particle(Px(100), Px(150), Px(40), [x |-> 1500, y |-> 0]),
    Particle(Px(160), Px(150), Px(40), [x |-> 0, y |-> 0]),
    Particle(Px(300), Px(100), Px(25), [x |-> -1000, y |-> 1000])>>

Scenes == {SceneOblique, SceneWalls, SceneHeadOn}

-----------------------------------------------------------------------------
(* The running callback *)

Idle == [ph |-> "idle", i |-> 0, j |-> 0]

NoSpawn == [size |-> 0, position |-> [x |-> 0, y |-> 0], attempts |-> 0,
            checks |-> 0, exhausted |-> {}]

\* The forEach of Particle.update visiting only the particles created after
\* particle i: every unordered pair once.
FirstOtherLater(i, from, n) ==
  LET S == {k \in from..n : k > i}
  IN  IF S = {} THEN 0 ELSE CHOOSE k \in S : \A l \in S : k <= l

\* The first index in from..n other than i, or 0: the next particle for which
\* the forEach of Particle.update calls handleCollision.
FirstOther(i, from, n) ==
  LET S == {k \in from..n : k # i}
  IN  IF S = {} THEN 0 ELSE CHOOSE k \in S : \A l \in S : k <= l

\* Particle.update integrating the body before it resolves its collisions.
NextCallMoveFirst(c, n) ==
  CASE c.ph = "idle" ->
         IF n = 0 THEN Idle ELSE [ph |-> "repel", i |-> 1, j |-> 0]
    [] c.ph = "repel" -> [ph |-> "move", i |-> c.i, j |-> 0]
    [] c.ph \in {"move", "collide"} ->
         LET S == {k \in (c.j + 1)..n : k # c.i}
         IN  IF S = {} THEN [ph |-> "wall", i |-> c.i, j |-> 0]
             ELSE [ph |-> "collide", i |-> c.i, j |-> CHOOSE k \in S : \A l \in S : k <= l]
    [] c.ph = "wall" ->
         IF c.i < n THEN [ph |-> "repel", i |-> c.i + 1, j |-> 0] ELSE Idle

\* The call that follows call c in a frame over n particles: animate's
\* forEach runs Particle.update on each particle in turn, and update runs
\* repelFromMouse, handleCollision with every other particle, updatePosition
\* and handleWallCollisions.
NextCall(c, n) ==
  CASE c.ph = "idle" ->
         IF n = 0 THEN Idle ELSE [ph |-> "repel", i |-> 1, j |-> 0]
    [] c.ph \in {"repel", "collide"} ->
         LET k == FirstOther(c.i, c.j + 1, n)
         IN  IF k = 0 THEN [ph |-> "move", i |-> c.i, j |-> 0]
             ELSE [ph |-> "collide", i |-> c.i, j |-> k]
    [] c.ph = "move" -> [ph |-> "wall", i |-> c.i, j |-> 0]
    [] c.ph = "wall" ->
         IF c.i < n THEN [ph |-> "repel", i |-> c.i + 1, j |-> 0] ELSE Idle

\* The state a handler or call starts from, kept in last.
Before(op, arg) ==
  [op |-> op, arg |-> arg, particles |-> particles, mouse |-> mouse,
   width |-> containerWidth, height |-> containerHeight]

\* A method call of the frame: the particles become ps, the call is logged.
Call(op, ps) ==
  /\ particles' = ps
  /\ log' = Append(log, [op |-> op, i |-> pc.i, j |-> pc.j, mouse |-> mouse,
                         width |-> containerWidth, height |-> containerHeight,
                         before |-> particles, after |-> ps])
  /\ last' = Before(op, <<pc.i, pc.j>>)
  /\ pc' = NextCall(pc, Len(particles))
  /\ UNCHANGED <<mouse, containerWidth, containerHeight, spawn, frames, events>>

-----------------------------------------------------------------------------
(* Handlers *)

\* A mousemove handler that marks the pointer absent when the event is not
\* over the container.
MouseMoveClearing(e) ==
  /\ pc = Idle
  /\ events.mousemove + events.resize < MaxEvents
  /\ mouse' = IF /\ 0 <= e.pageX - ContainerOffset.left
                 /\ e.pageX - ContainerOffset.left <= containerWidth
                 /\ 0 <= e.pageY - ContainerOffset.top
                 /\ e.pageY - ContainerOffset.top <= containerHeight
              THEN [x |-> Num(e.pageX - ContainerOffset.left),
                    y |-> Num(e.pageY - ContainerOffset.top)]
              ELSE [x |-> undefined, y |-> undefined]
  /\ events' = [events EXCEPT !.mousemove = @ + 1]
  /\ last' = Before("mousemove", e)
  /\ UNCHANGED <<particles, containerWidth, containerHeight, pc, spawn, log, frames>>

\* $(document).on("mousemove", ...)
MouseMove(e) ==
  /\ pc = Idle
  /\ events.mousemove + events.resize < MaxEvents
  /\ mouse' = [x |-> Num(e.pageX - ContainerOffset.left),
               y |-> Num(e.pageY - ContainerOffset.top)]
  /\ events' = [events EXCEPT !.mousemove = @ + 1]
  /\ last' = Before("mousemove", e)
  /\ UNCHANGED <<particles, containerWidth, containerHeight, pc, spawn, log, frames>>

\* $(window).on("resize", ...), the container now measuring v.
Resize(v) ==
  /\ pc = Idle
  /\ events.mousemove + events.resize < MaxEvents
  /\ containerWidth' = v.width
  /\ containerHeight' = v.height
  /\ particles' = [k \in 1..Len(particles) |->
                     clampParticle(particles[k], v.width, v.height)]
  /\ events' = [events EXCEPT !.resize = @ + 1]
  /\ last' = Before("resize", v)
  /\ UNCHANGED <<mouse, pc, spawn, log, frames>>

\* animate: a frame begins; its calls follow one by one.
Animate ==
  /\ pc = Idle
  /\ frames < MaxFrames
  /\ frames' = frames + 1
  /\ log' = <<>>
  /\ last' = Before("animate", <<>>)
  /\ pc' = NextCall(pc, Len(particles))
  /\ UNCHANGED <<particles, mouse, containerWidth, containerHeight, spawn, events>>

RepelFromMouse ==
  /\ pc.ph = "repel"
  /\ Call("repel", [particles EXCEPT ![pc.i] = repelFromMouse(@, mouse)])

HandleCollision ==
  /\ pc.ph = "collide"
  /\ LET r == handleCollision(particles[pc.i], particles[pc.j])
     IN  Call("collide", [particles EXCEPT ![pc.i] = r[1], ![pc.j] = r[2]])

UpdatePosition ==
  /\ pc.ph = "move"
  /\ Call("move", [particles EXCEPT ![pc.i] = updatePosition(@)])

\* handleWallCollisions, then updateDOM, which changes no state of the physics.
HandleWallCollisions ==
  /\ pc.ph = "wall"
  /\ Call("wall", [particles EXCEPT
                     ![pc.i] = handleWallCollisions(@, containerWidth, containerHeight)])

Init ==
  /\ particles \in Scenes
  /\ mouse = [x |-> undefined, y |-> undefined]
  /\ containerWidth = Px(400)
  /\ containerHeight = Px(300)
  /\ pc = Idle
  /\ spawn = NoSpawn
  /\ log = <<>>
  /\ last = [op |-> "init", arg |-> <<>>, particles |-> <<>>,
             mouse |-> [x |-> undefined, y |-> undefined], width |-> 0, height |-> 0]
  /\ frames = 0
  /\ events = [mousemove |-> 0, resize |-> 0]

Next ==
  \/ \E e \in MousePages : MouseMove(e)
  \/ \E v \in Viewports : Resize(v)
  \/ Animate
  \/ RepelFromMouse
  \/ HandleCollision
  \/ UpdatePosition
  \/ HandleWallCollisions

Spec == Init /\ [][Next]_vars

-----------------------------------------------------------------------------
(* init and createParticles *)

\* Particles a behaviour creates (the program creates PARTICLE_COUNT).
MaxSpawn == 2

\* Values Math.random() returns for a size or an x coordinate: 0 and 0.5.
RandomDraws == {0, Scale \div 2}

\* The value Math.random() returns for a y coordinate or a velocity
\* component: 0.25.
OtherDraws == {Scale \div 4}

Creating == [ph |-> "create", i |-> 0, j |-> 0]

Finding == [ph |-> "find", i |-> 0, j |-> 0]

\* isValid with the comparison of the distance turned round.
isValidInverted(position, size, existingParticles) ==
  ~ \E k \in 1..Len(existingParticles) :
      ~ distanceBelow(position.x, position.y, existingParticles[k].x,
                      existingParticles[k].y, size + existingParticles[k].size)

\* findValidPosition's isValid: no existing particle is nearer than the sum
\* of the sizes.
isValid(position, size, existingParticles) ==
  ~ \E k \in 1..Len(existingParticles) :
      distanceBelow(position.x, position.y, existingParticles[k].x,
                    existingParticles[k].y, size + existingParticles[k].size)

\* The rest of the loop body of createParticles once findValidPosition has
\* returned spawn.position: the particle is constructed, with the velocity
\* drawn by vx, vy, and pushed; the loop ends at PARTICLE_COUNT particles.
Push(vx, vy) ==
  /\ particles' = Append(particles,
                         Particle(spawn.position.x, spawn.position.y, spawn.size,
                                  randomVelocity(vx, vy)))
  /\ pc' = IF Len(particles) + 1 < Min(PARTICLE_COUNT, MaxSpawn) THEN Creating ELSE Idle
  /\ UNCHANGED <<mouse, containerWidth, containerHeight, log, last, frames, events>>

\* createParticles draws a size and findValidPosition its first candidate.
FindStart(r, rx, ry) ==
  /\ pc = Creating
  /\ spawn' = [spawn EXCEPT
                 !.size = randomSize(r),
                 !.position = randomPosition(randomSize(r), rx, ry, containerWidth,
                                             containerHeight),
                 !.attempts = 0,
                 !.checks = 0]
  /\ pc' = Finding
  /\ UNCHANGED <<particles, mouse, containerWidth, containerHeight, log, last, frames,
                 events>>

\* while (attempts < MAX_ATTEMPTS), the candidate is valid: it is returned.
FindAccept(vx, vy) ==
  /\ pc = Finding
  /\ spawn.attempts < MAX_ATTEMPTS
  /\ isValid(spawn.position, spawn.size, particles)
  /\ spawn' = [spawn EXCEPT !.checks = @ + 1]
  /\ Push(vx, vy)

\* while (attempts < MAX_ATTEMPTS), the candidate overlaps: another is drawn.
FindRetry(rx, ry) ==
  /\ pc = Finding
  /\ spawn.attempts < MAX_ATTEMPTS
  /\ ~ isValid(spawn.position, spawn.size, particles)
  /\ spawn' = [spawn EXCEPT
                 !.position = randomPosition(spawn.size, rx, ry, containerWidth,
                                             containerHeight),
                 !.attempts = @ + 1,
                 !.checks = @ + 1]
  /\ UNCHANGED <<particles, mouse, containerWidth, containerHeight, pc, log, last,
                 frames, events>>

\* The loop ran out: the last candidate drawn is returned unchecked.
FindGiveUp(vx, vy) ==
  /\ pc = Finding
  /\ spawn.attempts >= MAX_ATTEMPTS
  /\ spawn' = [spawn EXCEPT !.exhausted = @ \cup {Len(particles) + 1}]
  /\ Push(vx, vy)

\* init: the container is emptied and measured, the particles array cleared.
InitSpawn ==
  /\ particles = <<>>
  /\ mouse = [x |-> undefined, y |-> undefined]
  /\ containerWidth = Px(400)
  /\ containerHeight = Px(300)
  /\ pc = Creating
  /\ spawn = NoSpawn
  /\ log = <<>>
  /\ last = [op |-> "init", arg |-> <<>>, particles |-> <<>>,
             mouse |-> [x |-> undefined, y |-> undefined], width |-> 0, height |-> 0]
  /\ frames = 0
  /\ events = [mousemove |-> 0, resize |-> 0]

NextSpawn ==
  \/ \E r, rx \in RandomDraws, ry \in OtherDraws : FindStart(r, rx, ry)
  \/ \E vx, vy \in OtherDraws : FindAccept(vx, vy)
  \/ \E rx \in RandomDraws, ry \in OtherDraws : FindRetry(rx, ry)
  \/ \E vx, vy \in OtherDraws : FindGiveUp(vx, vy)

SpecSpawn == InitSpawn /\ [][NextSpawn]_vars

-----------------------------------------------------------------------------
(* Claims *)

\* Rounding tolerance of the identities of real arithmetic, in units.
Tol == 5

Indices == 1..Len(particles)

\* A frame or a resize handler has finished and no callback is running.
Settled == pc = Idle /\ (frames > 0 \/ events.resize > 0)

\* v lies in [radius, dim - radius].
Within(v, radius, dim) == radius <= v /\ v <= dim - radius

\* C1 as claimed: once a frame or a resize handler has finished, every body
\* satisfies radius <= x <= width - radius and radius <= y <= height - radius,
\* whatever the viewport size and the body radius.
C1_AsClaimed ==
  Settled =>
    \A k \in Indices :
      /\ Within(particles[k].x, particles[k].size, containerWidth)
      /\ Within(particles[k].y, particles[k].size, containerHeight)

\* The position of a body on one axis once a frame or resize has finished.
AxisBound(v, radius, dim) ==
  IF dim >= 2 * radius THEN Within(v, radius, dim) ELSE v = dim - radius

\* C1, amended: once a frame or a resize handler has finished, every body lies
\* in [radius, dimension - radius] on each axis on which the viewport is at
\* least as large as the body's diameter; on a narrower axis that interval is
\* empty and the body lies at dimension - radius.
C1_PositionBound ==
  Settled =>
    \A k \in Indices :
      /\ AxisBound(particles[k].x, particles[k].size, containerWidth)
      /\ AxisBound(particles[k].y, particles[k].size, containerHeight)

\* A frame has finished after a resize to a viewport that holds every body,
\* and a body that bounced lies on the right boundary.
C1_Witness ==
  /\ Settled
  /\ frames > 0
  /\ events.resize > 0
  /\ \A k \in Indices : containerWidth >= 2 * particles[k].size
  /\ \E k \in Indices :
       /\ particles[k].x = containerWidth - particles[k].size
       /\ particles[k].velocity.x < 0

\* The position of a body on one axis after clamping into [radius, dim - radius].
Nearest(v, radius, dim) ==
  IF v < radius THEN radius ELSE IF v > dim - radius THEN dim - radius ELSE v

\* What a resize leaves alone: the pointer, the number of bodies, and every
\* body's velocity, radius, mass and friction.
ResizeKeeps ==
  /\ mouse = last.mouse
  /\ Len(particles) = Len(last.particles)
  /\ \A k \in Indices :
       /\ particles[k].velocity = last.particles[k].velocity
       /\ particles[k].size = last.particles[k].size
       /\ particles[k].mass = last.particles[k].mass
       /\ particles[k].friction = last.particles[k].friction

\* C2 as claimed: the resize handler stores the new dimensions and leaves every
\* body, on each axis, at the nearest value in [radius, newDim - radius] to
\* where it was (bodies inside stay), changing nothing else.
C2_AsClaimed ==
  last.op = "resize" =>
    /\ containerWidth = last.arg.width /\ containerHeight = last.arg.height
    /\ ResizeKeeps
    /\ \A k \in Indices :
         /\ Within(particles[k].x, particles[k].size, containerWidth)
         /\ Within(particles[k].y, particles[k].size, containerHeight)
         /\ particles[k].x = Nearest(last.particles[k].x, particles[k].size, containerWidth)
         /\ particles[k].y = Nearest(last.particles[k].y, particles[k].size, containerHeight)

\* C2, amended: the resize handler stores the new width and height; on each
\* axis with newDim >= 2 * radius it moves a body outside [radius, newDim -
\* radius] to the nearest value of that interval and leaves a body inside it
\* where it is; on a narrower axis it puts the body at newDim - radius; it
\* changes no velocity, radius or mass and not the pointer.
C2_ResizeClamp ==
  last.op = "resize" =>
    /\ containerWidth = last.arg.width /\ containerHeight = last.arg.height
    /\ ResizeKeeps
    /\ \A k \in Indices :
         /\ particles[k].x =
              IF containerWidth >= 2 * particles[k].size
              THEN Nearest(last.particles[k].x, particles[k].size, containerWidth)
              ELSE containerWidth - particles[k].size
         /\ particles[k].y =
              IF containerHeight >= 2 * particles[k].size
              THEN Nearest(last.particles[k].y, particles[k].size, containerHeight)
              ELSE containerHeight - particles[k].size

\* A resize to a viewport that holds every body moved one body and left
\* another where it was, with the pointer recorded.
C2_Witness ==
  /\ last.op = "resize"
  /\ mouse.x # undefined
  /\ \A k \in Indices : /\ containerWidth >= 2 * particles[k].size
                        /\ containerHeight >= 2 * particles[k].size
  /\ \E k \in Indices : particles[k].x < last.particles[k].x
  /\ \E k \in Indices : /\ particles[k].x = last.particles[k].x
                        /\ particles[k].y = last.particles[k].y


\* The calls op of the current frame, as indices of log.
Calls(op) == {n \in 1..Len(log) : log[n].op = op}

\* The call op just made, if the latest call is one.  Calls are logged one by
\* one, so every call of a frame is the latest in the state it leads to.
Latest(op) == {n \in Calls(op) : n = Len(log)}

\* The body a logged call was made on, before and after the call.
Was(n) == log[n].before[log[n].i]

Became(n) == log[n].after[log[n].i]

\* The wall call n came right after the integration of the same body, which
\* applied the friction to the velocity the collisions had left.
Integrated(n) ==
  /\ n > 1
  /\ log[n - 1].op = "move"
  /\ log[n - 1].i = log[n].i
  /\ log[n - 1].after = log[n].before
  /\ Was(n).velocity.x = Mul(Was(n - 1).velocity.x, Was(n - 1).friction)
  /\ Was(n).velocity.y = Mul(Was(n - 1).velocity.y, Was(n - 1).friction)
  /\ Was(n).x = Was(n - 1).x + Was(n).velocity.x
  /\ Was(n).y = Was(n - 1).y + Was(n).velocity.y

\* After integration the body of wall call n has crossed the left, right, top,
\* bottom boundary moving towards it.
CrossedLeft(n) == Was(n).x - Was(n).size <= 0 /\ Was(n).velocity.x < 0

CrossedRight(n) == Was(n).x + Was(n).size >= log[n].width /\ Was(n).velocity.x > 0

CrossedTop(n) == Was(n).y - Was(n).size <= 0 /\ Was(n).velocity.y < 0

CrossedBottom(n) == Was(n).y + Was(n).size >= log[n].height /\ Was(n).velocity.y > 0

\* The four statements of the wall bounce for wall call n; wide and high say
\* when the statements of the x walls and of the y walls apply.
WallBounce(n, wide, high) ==
  /\ Integrated(n)
  /\ (CrossedLeft(n) /\ wide) =>
       /\ Became(n).x = Was(n).size
       /\ Became(n).velocity.x = Mul(-Was(n).velocity.x, BOUNCE_ENERGY)
       /\ Became(n).velocity.x > 0
  /\ (CrossedRight(n) /\ wide) =>
       /\ Became(n).x = log[n].width - Was(n).size
       /\ Became(n).velocity.x = -Mul(Was(n).velocity.x, BOUNCE_ENERGY)
       /\ Became(n).velocity.x < 0
  /\ (CrossedTop(n) /\ high) =>
       /\ Became(n).y = Was(n).size
       /\ Became(n).velocity.y = Mul(-Was(n).velocity.y, BOUNCE_ENERGY)
       /\ Became(n).velocity.y > 0
  /\ (CrossedBottom(n) /\ high) =>
       /\ Became(n).y = log[n].height - Was(n).size
       /\ Became(n).velocity.y = -Mul(Was(n).velocity.y, BOUNCE_ENERGY)
       /\ Became(n).velocity.y < 0
  \* a wall of one axis leaves the other axis alone
  /\ (Was(n).y - Was(n).size > 0 /\ Was(n).y + Was(n).size < log[n].height) =>
       /\ Became(n).y = Was(n).y
       /\ Became(n).velocity.y = Was(n).velocity.y
  /\ (Was(n).x - Was(n).size > 0 /\ Was(n).x + Was(n).size < log[n].width) =>
       /\ Became(n).x = Was(n).x
       /\ Became(n).velocity.x = Was(n).velocity.x

\* C3 as claimed: a body that has crossed the left boundary with negative
\* x-velocity after integration ends the step at x = radius with x-velocity
\* |integrated x-velocity| * BOUNCE_ENERGY > 0, the y components untouched by
\* that wall; symmetrically for the right, top and bottom walls.
C3_AsClaimed == \A n \in Calls("wall") : WallBounce(n, TRUE, TRUE)

\* C3, amended: the same, provided the viewport is larger than the body's
\* diameter on the axis of the wall (width > 2 * radius for the left and right
\* walls, height > 2 * radius for the top and bottom walls).
C3_WallBounce ==
  \A n \in Calls("wall") :
    WallBounce(n, log[n].width > 2 * Was(n).size, log[n].height > 2 * Was(n).size)

\* A body of radius 25 at x = 26 with x-velocity -2 in a 400 x 300 viewport has
\* been integrated to x = 24.01 and bounced off the left wall.
C3_Witness ==
  \E n \in Calls("wall") :
    /\ CrossedLeft(n)
    /\ log[n].width = Px(400)
    /\ Was(n - 1).x = Px(26)
    /\ Was(n - 1).velocity.x = -2000
    /\ Was(n).x = 24010
    /\ Became(n).x = Px(25)
    /\ Became(n).velocity.x = Mul(1990, BOUNCE_ENERGY)


\* The component of vector v along, and across, the direction of (dx, dy) #
\* (0, 0).
Along(v, dx, dy) ==
  LET u == Enlarge(<<dx, dy>>)
  IN  Div(Mul(v.x, u[1]) + Mul(v.y, u[2]), Hypot(u[1], u[2]))

Across(v, dx, dy) ==
  LET u == Enlarge(<<dx, dy>>)
  IN  Div(Mul(v.x, u[2]) - Mul(v.y, u[1]), Hypot(u[1], u[2]))

\* a and b are equal up to rounding.
Near(a, b) == Abs(a - b) <= Tol

\* The repel call with which the update of the body of call n began.
UpdateStart(n) == CHOOSE s \in Calls("repel") : log[s].i = log[n].i

\* The pointer m, if recorded, is not within the repulsion range of body p.
OutOfRange(p, m) ==
  \/ m.x = undefined
  \/ p.x = m.x[1] /\ p.y = m.y[1]
  \/ ~ distanceBelow(p.x, p.y, m.x[1], m.y[1], REPULSION_RADIUS)

\* Bodies p and q overlap: 0 < distance < sum of the radii.
Overlap(p, q) ==
  /\ p.x # q.x \/ p.y # q.y
  /\ distanceBelow(p.x, p.y, q.x, q.y, p.size + q.size)

\* The body of wall call n received no repulsion in its update, overlapped no
\* other body, and after integration touches no wall.
FreeFlight(n) ==
  LET s == UpdateStart(n)
  IN  /\ OutOfRange(Was(s), log[s].mouse)
      /\ \A k \in 1..Len(log[s].before) :
           k # log[s].i => ~ Overlap(Was(s), log[s].before[k])
      /\ Was(n).x - Was(n).size > 0
      /\ Was(n).x + Was(n).size < log[n].width
      /\ Was(n).y - Was(n).size > 0
      /\ Was(n).y + Was(n).size < log[n].height

\* C5: a body that in a step receives no pointer repulsion, overlaps no other
\* body and touches no wall has each velocity component multiplied by its
\* friction coefficient exactly once, and the damped velocity added to its
\* position: v' = friction * v, x' = x + friction * vx, y' = y + friction * vy.
C5_FrictionStep ==
  \A n \in Latest("wall") :
    FreeFlight(n) =>
      LET old == Was(UpdateStart(n))
          new == Became(n)
      IN  /\ new.velocity.x = Mul(old.velocity.x, old.friction)
          /\ new.velocity.y = Mul(old.velocity.y, old.friction)
          /\ new.x = old.x + Mul(old.velocity.x, old.friction)
          /\ new.y = old.y + Mul(old.velocity.y, old.friction)
          /\ Abs(new.velocity.x) <= Abs(old.velocity.x)
          /\ Abs(new.velocity.y) <= Abs(old.velocity.y)

\* The body at (300, 100) with velocity (-1, 1) has flown freely for one step,
\* to (299.005, 100.995) with velocity (-0.995, 0.995).
C5_Witness ==
  \E n \in Calls("wall") :
    /\ FreeFlight(n)
    /\ Was(UpdateStart(n)).x = Px(300)
    /\ Was(UpdateStart(n)).velocity = [x |-> -1000, y |-> 1000]
    /\ Became(n).velocity = [x |-> -995, y |-> 995]
    /\ Became(n).x = 299005
    /\ Became(n).y = 100995

\* The velocity repel call n added to its body.
Added(n) ==
  [x |-> Became(n).velocity.x - Was(n).velocity.x,
   y |-> Became(n).velocity.y - Was(n).velocity.y]

OtherWas(n) == log[n].before[log[n].j]

OtherBecame(n) == log[n].after[log[n].j]

\* The component of velocity v along, and across, the line from the centre of
\* the body of collide call n to the centre of the other body.
AlongAxis(n, v) == Along(v, OtherWas(n).x - Was(n).x, OtherWas(n).y - Was(n).y)

AcrossAxis(n, v) == Across(v, OtherWas(n).x - Was(n).x, OtherWas(n).y - Was(n).y)

\* The 1-D elastic collision: the velocity of a body of mass m1 and velocity
\* v1 after meeting a body of mass m2 and velocity v2.
Elastic(v1, v2, m1, m2) == Div(Mul(v1, m1 - m2) + 2 * Mul(v2, m2), m1 + m2)

\* C4: for two overlapping bodies (0 < distance < r1 + r2), one call of
\* handleCollision keeps m1 * v1 + m2 * v2 along the line joining the centres,
\* gives v1' = (v1 * (m1 - m2) + 2 * m2 * v2) / (m1 + m2) along that line and
\* the mirrored v2', keeps both velocity components across that line, and
\* keeps both positions (up to rounding).
C4_Momentum ==
  \A n \in Latest("collide") :
    Overlap(Was(n), OtherWas(n)) =>
      LET m1 == Was(n).mass
          m2 == OtherWas(n).mass
          v1 == AlongAxis(n, Was(n).velocity)
          v2 == AlongAxis(n, OtherWas(n).velocity)
          w1 == AlongAxis(n, Became(n).velocity)
          w2 == AlongAxis(n, OtherBecame(n).velocity)
      IN  /\ Abs((Mul(m1, w1) + Mul(m2, w2)) - (Mul(m1, v1) + Mul(m2, v2)))
               <= Mul(Tol, m1 + m2)
          /\ Near(w1, Elastic(v1, v2, m1, m2))
          /\ Near(w2, Elastic(v2, v1, m2, m1))
          /\ Near(AcrossAxis(n, Became(n).velocity), AcrossAxis(n, Was(n).velocity))
          /\ Near(AcrossAxis(n, OtherBecame(n).velocity),
                  AcrossAxis(n, OtherWas(n).velocity))
          /\ log[n].after =
               [log[n].before EXCEPT ![log[n].i].velocity = Became(n).velocity,
                                     ![log[n].j].velocity = OtherBecame(n).velocity]

\* The body of mass 60 at (100, 100) with velocity (1, 0.5) has met the body of
\* mass 100 at (130, 140) with velocity (-1, -2): along the axis (0.6, 0.8) the
\* velocities 1 and -2.2 became -3 and 0.2, across it 0.5 and 0.4 stayed.
C4_Witness ==
  \E n \in Calls("collide") :
    /\ Overlap(Was(n), OtherWas(n))
    /\ Was(n).mass = Px(60) /\ OtherWas(n).mass = Px(100)
    /\ Was(n).velocity = [x |-> 1000, y |-> 500]
    /\ OtherWas(n).velocity = [x |-> -1000, y |-> -2000]
    /\ Became(n).velocity = [x |-> -1400, y |-> -2700]
    /\ OtherBecame(n).velocity = [x |-> 440, y |-> -80]


\* The pointer of a mousemove event at page position e lies over the container.
OverContainer(e) ==
  /\ 0 <= e.pageX - ContainerOffset.left
  /\ e.pageX - ContainerOffset.left <= containerWidth
  /\ 0 <= e.pageY - ContainerOffset.top
  /\ e.pageY - ContainerOffset.top <= containerHeight

Rank(n) ==
  CASE log[n].op = "repel" -> 1
    [] log[n].op = "collide" -> 2
    [] log[n].op = "move" -> 3
    [] log[n].op = "wall" -> 4

\* C9 as claimed: within one step every repulsion comes before any collision,
\* every collision before any integration, and the integration of a body
\* before its wall collisions.
C9_AsClaimed ==
  \A m, n \in 1..Len(log) :
    /\ (Rank(m) < Rank(n) /\ Rank(n) <= 3) => m < n
    /\ (log[m].op = "move" /\ log[n].op = "wall" /\ log[m].i = log[n].i) => m < n

\* Call m comes before call n in the order of the code: bodies in creation
\* order, and for one body repulsion, its collisions with the other bodies
\* in creation order, integration, wall collisions.
Precedes(m, n) ==
  \/ log[m].i < log[n].i
  \/ log[m].i = log[n].i /\ Rank(m) < Rank(n)
  \/ log[m].i = log[n].i /\ Rank(m) = 2 /\ Rank(n) = 2 /\ log[m].j < log[n].j

\* The calls of one finished frame on body k: one repulsion, one collision
\* with every other body, one integration, one wall check.
UpdatedOnce(k) ==
  /\ Cardinality({n \in Calls("repel") : log[n].i = k}) = 1
  /\ Cardinality({n \in Calls("move") : log[n].i = k}) = 1
  /\ Cardinality({n \in Calls("wall") : log[n].i = k}) = 1
  /\ {log[n].j : n \in {c \in Calls("collide") : log[c].i = k}} = Indices \ {k}

\* C9, amended: the phase order holds within the update of one body, not over
\* the step: bodies are updated one after another in creation order, and for
\* each body repulsion is applied before its collisions with the other bodies
\* are resolved, these before it is integrated, and it is integrated before
\* its wall collisions are resolved; a position changes only in integration
\* and wall resolution, so a body's position changes only after the collisions
\* of its own update, while the repulsion and collisions of every later body
\* follow it.
C9_PhaseOrder ==
  /\ \A m, n \in 1..Len(log) : m < n => Precedes(m, n)
  /\ \A n \in 1..Len(log) :
       Rank(n) <= 2 =>
         \A k \in 1..Len(log[n].before) :
           /\ log[n].after[k].x = log[n].before[k].x
           /\ log[n].after[k].y = log[n].before[k].y
  /\ (pc = Idle /\ frames > 0) =>
       /\ Len(log) = Len(particles) * (Len(particles) + 2)
       /\ \A k \in Indices : UpdatedOnce(k)

\* A frame over three bodies has finished, in which the first body moved
\* before the second body was repelled and collided.
C9_Witness ==
  /\ pc = Idle
  /\ Len(particles) = 3
  /\ Len(log) = 15
  /\ \E m, n \in 1..Len(log) :
       /\ m < n
       /\ log[m].op = "move" /\ log[m].i = 1
       /\ Became(m).x # Was(m).x
       /\ log[n].op = "collide" /\ log[n].i = 2 /\ log[n].j = 1
       /\ Overlap(Was(n), OtherWas(n))


\* Call n resolves the pair that call m resolved, from the other body's side.
Mirrors(m, n) ==
  /\ m \in Calls("collide") /\ n \in Calls("collide")
  /\ m < n
  /\ log[n].i = log[m].j /\ log[n].j = log[m].i

Diff(v, w) == [x |-> v.x - w.x, y |-> v.y - w.y]

\* The pair of call m lies and moves before call n as call m left it.
Untouched(m, n) ==
  /\ log[n].before[log[m].i] = log[m].after[log[m].i]
  /\ log[n].before[log[m].j] = log[m].after[log[m].j]

NearTwice(a, b) == Abs(a - 2 * b) <= 3 * Tol

\* In the mirrored call n the body of call m is the other body, and the other
\* body of call m is the body of call n: OtherBecame(n) and Became(n) are what
\* the two bodies of call m have become after both resolutions.
\* C10 as claimed: the second resolution of an overlapping pair in a step
\* doubles the impulse, so after both the velocity of each body has changed
\* along the collision axis by twice the change of a single resolution.
C10_AsClaimed ==
  \A m, n \in 1..Len(log) :
    (Mirrors(m, n) /\ Overlap(Was(m), OtherWas(m)) /\ Untouched(m, n)) =>
      /\ NearTwice(AlongAxis(m, Diff(OtherBecame(n).velocity, Was(m).velocity)),
                   AlongAxis(m, Diff(Became(m).velocity, Was(m).velocity)))
      /\ NearTwice(AlongAxis(m, Diff(Became(n).velocity, OtherWas(m).velocity)),
                   AlongAxis(m, Diff(OtherBecame(m).velocity, OtherWas(m).velocity)))

\* C10, amended: in one step the collision of every ordered pair of distinct
\* bodies is resolved exactly once, in creation order of the first body, so
\* every unordered pair is resolved twice, once from each side; each
\* resolution of an overlapping pair reverses the relative velocity of the
\* pair along the collision axis, so the second resolution does not double the
\* impulse of the first: when nothing has touched the pair in between it gives
\* both bodies back the velocities they had before the first.
C10_Resolutions ==
  /\ \A n \in Calls("collide") : log[n].i # log[n].j
  /\ \A m, n \in Calls("collide") :
       m < n => (log[m].i < log[n].i \/ (log[m].i = log[n].i /\ log[m].j < log[n].j))
  /\ (pc = Idle /\ frames > 0) =>
       \A a, b \in Indices :
         a # b => Cardinality({n \in Calls("collide") :
                                 log[n].i = a /\ log[n].j = b}) = 1
  /\ \A n \in Latest("collide") :
       Overlap(Was(n), OtherWas(n)) =>
         Abs(AlongAxis(n, Diff(Became(n).velocity, OtherBecame(n).velocity))
             + AlongAxis(n, Diff(Was(n).velocity, OtherWas(n).velocity))) <= 2 * Tol
  /\ \A m \in Calls("collide"), n \in Latest("collide") :
       (Mirrors(m, n) /\ Untouched(m, n) /\ Overlap(Was(m), OtherWas(m))) =>
         /\ Near(OtherBecame(n).velocity.x, Was(m).velocity.x)
         /\ Near(OtherBecame(n).velocity.y, Was(m).velocity.y)
         /\ Near(Became(n).velocity.x, OtherWas(m).velocity.x)
         /\ Near(Became(n).velocity.y, OtherWas(m).velocity.y)

\* A frame has finished in which the body moving at 1.5 px/frame hit the
\* resting body of equal mass head on: the first resolution stopped it and the
\* second, from the side of the other body, set it moving again.
C10_Witness ==
  /\ pc = Idle
  /\ \E m, n \in 1..Len(log) :
       /\ Mirrors(m, n) /\ Untouched(m, n)
       /\ Overlap(Was(m), OtherWas(m))
       /\ Was(m).velocity = [x |-> Px(3) \div 2, y |-> 0]
       /\ Became(m).velocity = [x |-> 0, y |-> 0]
       /\ OtherBecame(n).velocity = [x |-> Px(3) \div 2, y |-> 0]


\* Particles i and j are nearer than the sum of their radii.
TooNear(i, j) ==
  distanceBelow(particles[i].x, particles[i].y, particles[j].x, particles[j].y,
                particles[i].size + particles[j].size)

\* C6: the position search makes at most MAX_ATTEMPTS candidate checks; a
\* position it returns after fewer than MAX_ATTEMPTS failed checks is at
\* distance >= radius + otherRadius from every particle placed before, and a
\* search whose MAX_ATTEMPTS checks all failed returns its last candidate; so
\* two particles are nearer than the sum of their radii only if the search
\* for the later one ran out of attempts.
C6_Placement ==
  /\ spawn.checks <= MAX_ATTEMPTS
  /\ spawn.attempts <= MAX_ATTEMPTS
  /\ \A j \in 1..Len(particles) :
       \A i \in 1..(j - 1) : TooNear(i, j) => j \in spawn.exhausted
  /\ (pc # Finding /\ Len(particles) \in spawn.exhausted) =>
       /\ spawn.checks = MAX_ATTEMPTS
       /\ particles[Len(particles)].x = spawn.position.x
       /\ particles[Len(particles)].y = spawn.position.y

\* The search for the second particle ran out after MAX_ATTEMPTS checks and
\* its last candidate, which overlaps the first particle, was accepted.
C6_Witness ==
  /\ Len(particles) = 2
  /\ pc # Finding
  /\ 2 \in spawn.exhausted
  /\ spawn.checks = MAX_ATTEMPTS
  /\ TooNear(1, 2)

====
